---- MODULE Spec2Model ----
(***************************************************************************)
(* State-machine model of the awesomity-todo GraphQL backend:              *)
(*   - the ToDo table and the createTodo / updateTodo / deleteTodo         *)
(*     mutations and the todos / todoById queries (todos/schema.py),       *)
(*   - the User table and the register / updateAccount / deleteAccount /   *)
(*     passwordChange / tokenAuth mutations (users/schema.py, mixins.py).  *)
(*                                                                         *)
(* Python strings that the code converts (str.upper, icontains) are        *)
(* sequences of one-character strings, so the conversion is computed.      *)
(* An optional GraphQL argument is a set: {} when the argument is absent   *)
(* (kwargs.get gives None), {v} when it is supplied with value v.          *)
(***************************************************************************)
EXTENDS Integers, Sequences, FiniteSets, TLC

VARIABLES
    todos,          \* ToDo table: id -> row
    next_todo_id,   \* AutoField sequence of the ToDo table
    now,            \* the clock read by auto_now / auto_now_add
    users,          \* User table: id -> row
    next_user_id,   \* AutoField sequence of the User table
    response        \* the last request and what the resolver answered

vars == <<todos, next_todo_id, now, users, next_user_id, response>>

\* ---------------------------------------------------------------- bounds
MaxTodoId == 2      \* ToDo rows ever created
MaxClock == 3       \* saves of ToDo rows (each save reads a later clock)
MaxUserId == 2      \* User rows ever created

\* --------------------------------------------------------------- strings
None == {}
Some(v) == {v}
Val(opt) == CHOOSE v \in opt : TRUE

\* Python truthiness of kwargs.get(name): None and "" are falsy
Truthy(opt) == opt # {} /\ Val(opt) # <<>>

lowercase == <<"a","b","c","d","e","g","h","i","l","m","n","o","p","s","t","v","w","x","y">>
uppercase == <<"A","B","C","D","E","G","H","I","L","M","N","O","P","S","T","V","W","X","Y">>

UpperChar(c) ==
    IF \E i \in DOMAIN lowercase : lowercase[i] = c
    THEN uppercase[CHOOSE i \in DOMAIN lowercase : lowercase[i] = c]
    ELSE c

\* upper with a fault seeded: the string is stored as it was given
upper_identity(s) == s

\* str.upper()
upper(s) == [i \in DOMAIN s |-> UpperChar(s[i])]

\* needle is a substring of hay
Contains(hay, needle) ==
    \E k \in 0..Len(hay) :
        /\ k + Len(needle) <= Len(hay)
        /\ \A i \in 1..Len(needle) : hay[k + i] = needle[i]

\* Django's field__icontains lookup
icontains(field, search) == Contains(upper(field), upper(search))

\* ------------------------------------------------------------ ToDo model
LOW == <<"L","O","W">>
MEDIUM == <<"M","E","D","I","U","M">>
HIGH == <<"H","I","G","H">>
ACTIVE == <<"A","C","T","I","V","E">>
DONE == <<"D","O","N","E">>
CLOSED == <<"C","L","O","S","E","D">>
PRIORITY_CHOICES == {LOW, MEDIUM, HIGH}
STATUS_CHOICES == {ACTIVE, DONE, CLOSED}

\* graphene.String(default_value="low")
priority_default == <<"l","o","w">>

\* ToDo.objects.get raising ToDo.DoesNotExist
TodoDoesNotExist == "ToDo matching query does not exist."

\* ------------------------------------------------------- request inputs
TitleInputs == {<<"a">>}
TitleUpdates == {None, Some(<<>>), Some(<<"b">>)}
DescriptionInputs == {<<"x">>}
DescriptionUpdates == {None, Some(<<"y">>)}
PriorityInputs == {None, Some(<<"H","i","g","h">>), Some(<<"t","o","p">>)}
PriorityUpdates == {None, Some(<<>>), Some(<<"m","e","d","i","u","m">>)}
StatusUpdates == {None, Some(<<>>), Some(<<"d","o","n","e">>), Some(<<"o","k">>)}
TodoIds == 1..(MaxTodoId + 1)

\* ---------------------------------------------------------------- queries
\* Query.resolve_todos
resolve_todos(search) ==
    IF Truthy(search)
    THEN {id \in DOMAIN todos :
            \/ icontains(todos[id].title, Val(search))
            \/ icontains(todos[id].priority, Val(search))
            \/ icontains(todos[id].status, Val(search))}
    ELSE DOMAIN todos

\* Query.resolve_todo_by_id
resolve_todo_by_id(id) ==
    IF id \in DOMAIN todos
    THEN [error |-> "", todo |-> todos[id]]
    ELSE [error |-> TodoDoesNotExist]

\* -------------------------------------------------------------- mutations
\* NewTodo with a fault seeded: the priority argument is stored without .upper()
NewTodoNoUpper(id, title, description, priority) ==
    [id |-> id,
     title |-> title,
     description |-> description,
     priority |-> priority,
     status |-> ACTIVE,
     create_date |-> now + 1,
     modified_date |-> now + 1]

\* the row CreateTodo.mutate builds and saves
NewTodo(id, title, description, priority) ==
    [id |-> id,
     title |-> title,
     description |-> description,
     priority |-> upper(priority),
     status |-> ACTIVE,
     create_date |-> now + 1,
     modified_date |-> now + 1]

\* CreateTodo.mutate; caller is info.context.user, which the resolver never reads
CreateTodo(caller, title, description, priority) ==
    LET p == IF priority = None THEN priority_default ELSE Val(priority)
        todo == NewTodo(next_todo_id, title, description, p)
    IN  /\ next_todo_id <= MaxTodoId
        /\ now < MaxClock
        /\ todos' = [id \in DOMAIN todos \cup {next_todo_id} |->
                        IF id = next_todo_id THEN todo ELSE todos[id]]
        /\ next_todo_id' = next_todo_id + 1
        /\ now' = now + 1
        /\ response' = [op |-> "createTodo", caller |-> caller,
                        args |-> [title |-> title, description |-> description,
                                  priority |-> priority],
                        error |-> "", todo |-> todo]
        /\ UNCHANGED <<users, next_user_id>>

\* UpdatedTodo with a fault seeded: every assignment takes the argument, absent or not
UpdatedTodoOverwrite(todo, title, description, priority, status) ==
    [todo EXCEPT
        !.title = IF title = None THEN <<>> ELSE Val(title),
        !.description = IF description = None THEN <<>> ELSE Val(description),
        !.priority = IF priority = None THEN <<>> ELSE upper(Val(priority)),
        !.status = IF status = None THEN <<>> ELSE upper(Val(status)),
        !.modified_date = now + 1]

\* the field assignments of UpdateTodo.mutate and the save's auto_now
UpdatedTodo(todo, title, description, priority, status) ==
    [todo EXCEPT
        !.title = IF Truthy(title) THEN Val(title) ELSE todo.title,
        !.description = IF Truthy(description) THEN Val(description)
                        ELSE todo.description,
        !.priority = IF Truthy(priority) THEN upper(Val(priority))
                     ELSE todo.priority,
        !.status = IF Truthy(status) THEN upper(Val(status)) ELSE todo.status,
        !.modified_date = now + 1]

\* UpdateTodo.mutate, ToDo.objects.get raising: nothing is assigned or saved
UpdateTodoNotFound(todo_id) ==
    /\ todo_id \notin DOMAIN todos
    /\ response' = [op |-> "updateTodo", args |-> [todo_id |-> todo_id],
                    error |-> TodoDoesNotExist]
    /\ UNCHANGED <<todos, next_todo_id, now, users, next_user_id>>

\* UpdateTodo.mutate
UpdateTodo(todo_id, title, description, priority, status) ==
    LET todo == UpdatedTodo(todos[todo_id], title, description, priority, status)
    IN  /\ todo_id \in DOMAIN todos
        /\ now < MaxClock
        /\ todos' = [todos EXCEPT ![todo_id] = todo]
        /\ now' = now + 1
        /\ response' = [op |-> "updateTodo",
                        args |-> [todo_id |-> todo_id, title |-> title,
                                  description |-> description,
                                  priority |-> priority, status |-> status],
                        error |-> "", todo |-> todo]
        /\ UNCHANGED <<next_todo_id, users, next_user_id>>

\* DeleteTodo with a fault seeded: a soft delete that closes the row and keeps it
DeleteTodoSoft(todo_id) ==
    IF todo_id \notin DOMAIN todos
    THEN /\ response' = [op |-> "deleteTodo", args |-> [todo_id |-> todo_id],
                         error |-> TodoDoesNotExist]
         /\ UNCHANGED <<todos, next_todo_id, now, users, next_user_id>>
    ELSE /\ todos' = [todos EXCEPT ![todo_id].status = CLOSED]
         /\ response' = [op |-> "deleteTodo", args |-> [todo_id |-> todo_id],
                         error |-> "", todo_id |-> todo_id]
         /\ UNCHANGED <<next_todo_id, now, users, next_user_id>>

\* DeleteTodo.mutate
DeleteTodo(todo_id) ==
    IF todo_id \notin DOMAIN todos
    THEN /\ response' = [op |-> "deleteTodo", args |-> [todo_id |-> todo_id],
                         error |-> TodoDoesNotExist]
         /\ UNCHANGED <<todos, next_todo_id, now, users, next_user_id>>
    ELSE /\ todos' = [id \in DOMAIN todos \ {todo_id} |-> todos[id]]
         /\ response' = [op |-> "deleteTodo", args |-> [todo_id |-> todo_id],
                         error |-> "", todo_id |-> todo_id]
         /\ UNCHANGED <<next_todo_id, now, users, next_user_id>>

\* ------------------------------------------------------------- User model
\* request.user of a request that carries no valid token (AnonymousUser)
Anonymous == 0

\* the messages of the GraphQLErrors the user resolvers raise
EmailInUse == "Email is already in use!"
UsernameInUse == "Username is already in use!"
PasswordMismatch == "Password mismatch! Please check again"
LoginToUpdate == "Please login to update account!"
WrongDeletePassword == "Please specify correct password to delete account"
LoginToChangePassword == "You must be logged in to change your password"
OldPasswordIncorrect == "Old password is incorrect"
MustLoginWith == "Must login with password and one of the following fields ['email', 'username']."
InvalidCredentials == "Please enter valid credentials."
\* AnonymousUser.check_password raising NotImplementedError
AnonymousNotImplemented == "Django doesn't provide a DB representation for AnonymousUser."

FirstNames == {"Ann"}
LastNames == {"Lee"}
Usernames == {"ann", "bob"}
Emails == {"a@x", "b@x"}
Passwords == {"pw1", "pw2"}
FirstNameUpdates == {None, Some(""), Some("Zed")}
LastNameUpdates == {None, Some("")}
EmailUpdates == {None, Some(""), Some("a@x")}
SuperuserUpdates == {None, Some(FALSE), Some(TRUE)}
LoginEmails == {None} \cup {Some(e) : e \in Emails}
LoginUsernames == {None} \cup {Some(u) : u \in Usernames}
Callers == {Anonymous} \cup DOMAIN users

\* Python truthiness of a string argument: None and "" are falsy
TruthyStr(opt) == opt # {} /\ Val(opt) # ""

\* Python truthiness of a boolean argument: None and False are falsy
TruthyBool(opt) == opt # {} /\ Val(opt)

\* make_password with a fault seeded: the raw password is what is stored
make_password_plain(raw) == [algorithm |-> "plain", hash |-> raw]

\* user.set_password: the stored value is a digest of the raw password
make_password(raw) == [algorithm |-> "pbkdf2_sha256", hash |-> <<"digest", raw>>]

\* user.check_password
check_password(user, raw) == user.password.hash = <<"digest", raw>>

\* UserModel.objects.filter(email=email).exists()
email_exists(email) == \E id \in DOMAIN users : users[id].email = email

\* UserModel.objects.filter(username=username).exists()
username_exists(username) == \E id \in DOMAIN users : users[id].username = username

\* RegisterError with a fault seeded: the email lookup is left out
RegisterErrorNoEmailCheck(email, username, password, password2) ==
    IF username_exists(username) THEN UsernameInUse
    ELSE IF password # password2 THEN PasswordMismatch
    ELSE ""

\* the checks of Register.mutate, in the order the code makes them
RegisterError(email, username, password, password2) ==
    IF email_exists(email) THEN EmailInUse
    ELSE IF username_exists(username) THEN UsernameInUse
    ELSE IF password # password2 THEN PasswordMismatch
    ELSE ""

\* Register.mutate
Register(first_name, last_name, username, email, password, password2) ==
    LET error == RegisterError(email, username, password, password2)
        args == [first_name |-> first_name, last_name |-> last_name,
                 username |-> username, email |-> email,
                 password |-> password, password2 |-> password2]
        user == [id |-> next_user_id,
                 first_name |-> first_name,
                 last_name |-> last_name,
                 username |-> username,
                 email |-> email,
                 password |-> make_password(password),
                 is_superuser |-> FALSE]
    IN  IF error # ""
        THEN /\ response' = [op |-> "register", args |-> args, error |-> error]
             /\ UNCHANGED <<todos, next_todo_id, now, users, next_user_id>>
        ELSE /\ next_user_id <= MaxUserId
             /\ users' = [id \in DOMAIN users \cup {next_user_id} |->
                            IF id = next_user_id THEN user ELSE users[id]]
             /\ next_user_id' = next_user_id + 1
             /\ response' = [op |-> "register", args |-> args, error |-> "",
                             user |-> user]
             /\ UNCHANGED <<todos, next_todo_id, now>>

\* UpdateAccount.mutate for request.user = AnonymousUser
UpdateAccountAnonymous ==
    /\ response' = [op |-> "updateAccount", caller |-> Anonymous,
                    error |-> LoginToUpdate]
    /\ UNCHANGED <<todos, next_todo_id, now, users, next_user_id>>

\* UpdatedUser with a fault seeded: every assignment takes the argument, so an
\* absent or falsy argument clears the field
UpdatedUserOverwrite(user, first_name, last_name, email, is_superuser) ==
    [user EXCEPT
        !.first_name = IF first_name = None THEN "" ELSE Val(first_name),
        !.last_name = IF last_name = None THEN "" ELSE Val(last_name),
        !.email = IF email = None THEN "" ELSE Val(email),
        !.is_superuser = IF is_superuser = None THEN FALSE ELSE Val(is_superuser)]

\* UpdatedUser with a fault seeded: only a superuser's is_superuser is assigned
UpdatedUserPrivileged(user, first_name, last_name, email, is_superuser) ==
    [user EXCEPT
        !.first_name = IF TruthyStr(first_name) THEN Val(first_name)
                       ELSE user.first_name,
        !.last_name = IF TruthyStr(last_name) THEN Val(last_name)
                      ELSE user.last_name,
        !.email = IF TruthyStr(email) THEN Val(email) ELSE user.email]

\* the field assignments of UpdateAccount.mutate
UpdatedUser(user, first_name, last_name, email, is_superuser) ==
    [user EXCEPT
        !.first_name = IF TruthyStr(first_name) THEN Val(first_name)
                       ELSE user.first_name,
        !.last_name = IF TruthyStr(last_name) THEN Val(last_name)
                      ELSE user.last_name,
        !.email = IF TruthyStr(email) THEN Val(email) ELSE user.email,
        !.is_superuser = IF TruthyBool(is_superuser) THEN Val(is_superuser)
                         ELSE user.is_superuser]

\* UpdateAccount.mutate for an authenticated request.user (a superuser's row
\* is fetched again by id: the same row); answer is what response keeps of it
UpdateAccountAnswering(caller, first_name, last_name, email, is_superuser, answer) ==
    LET user == UpdatedUser(users[caller], first_name, last_name, email,
                            is_superuser)
    IN  /\ caller \in DOMAIN users
        /\ users' = [users EXCEPT ![caller] = user]
        /\ response' = [op |-> "updateAccount", caller |-> caller,
                        args |-> answer, error |-> "", user |-> user]
        /\ UNCHANGED <<todos, next_todo_id, now, next_user_id>>

\* UpdateAccount.mutate, response keeping the caller and the returned user
UpdateAccount(caller, first_name, last_name, email, is_superuser) ==
    UpdateAccountAnswering(caller, first_name, last_name, email, is_superuser,
                           <<>>)

\* UpdateAccount.mutate, response keeping the request's arguments as well
UpdateAccountLogged(caller, first_name, last_name, email, is_superuser) ==
    UpdateAccountAnswering(caller, first_name, last_name, email, is_superuser,
                           [first_name |-> first_name, last_name |-> last_name,
                            email |-> email, is_superuser |-> is_superuser])

\* DeleteAccountError with a fault seeded: the password is not checked
DeleteAccountErrorNoCheck(caller, password) ==
    IF caller = Anonymous THEN AnonymousNotImplemented ELSE ""

\* the check of DeleteAccount.mutate
DeleteAccountError(caller, password) ==
    IF caller = Anonymous THEN AnonymousNotImplemented
    ELSE IF ~check_password(users[caller], password) THEN WrongDeletePassword
    ELSE ""

\* DeleteAccount.mutate
DeleteAccount(caller, password) ==
    LET error == DeleteAccountError(caller, password)
    IN  IF error # ""
        THEN /\ response' = [op |-> "deleteAccount", caller |-> caller,
                             args |-> [password |-> password], error |-> error]
             /\ UNCHANGED <<todos, next_todo_id, now, users, next_user_id>>
        ELSE /\ users' = [id \in DOMAIN users \ {caller} |-> users[id]]
             /\ response' = [op |-> "deleteAccount", caller |-> caller,
                             args |-> [password |-> password], error |-> "",
                             password |-> password]
             /\ UNCHANGED <<todos, next_todo_id, now, next_user_id>>

\* PasswordChangeError with a fault seeded: the new password is not compared with its
\* confirmation
PasswordChangeErrorNoConfirm(caller, old_password, new_password, cfrm_password) ==
    IF caller = Anonymous THEN LoginToChangePassword
    ELSE IF ~check_password(users[caller], old_password) THEN OldPasswordIncorrect
    ELSE ""

\* the checks of PasswordChange.mutate, in the order the code makes them
PasswordChangeError(caller, old_password, new_password, cfrm_password) ==
    IF caller = Anonymous THEN LoginToChangePassword
    ELSE IF ~check_password(users[caller], old_password) THEN OldPasswordIncorrect
    ELSE IF new_password # cfrm_password THEN PasswordMismatch
    ELSE ""

\* PasswordChange.mutate
PasswordChange(caller, old_password, new_password, cfrm_password) ==
    LET error == PasswordChangeError(caller, old_password, new_password,
                                     cfrm_password)
        args == [old_password |-> old_password, new_password |-> new_password,
                 cfrm_password |-> cfrm_password]
    IN  IF error # ""
        THEN /\ response' = [op |-> "passwordChange", caller |-> caller,
                             args |-> args, error |-> error]
             /\ UNCHANGED <<todos, next_todo_id, now, users, next_user_id>>
        ELSE /\ users' = [users EXCEPT
                            ![caller].password = make_password(new_password)]
             /\ response' = [op |-> "passwordChange", caller |-> caller,
                             args |-> args, error |-> "", user |-> users'[caller]]
             /\ UNCHANGED <<todos, next_todo_id, now, next_user_id>>

\* UserModel.USERNAME_FIELD
USERNAME_FIELD == "username"

\* ObtainJSONWebToken.LOGIN_ALLOWED_FIELDS
LOGIN_ALLOWED_FIELDS == {"email", "username"}

\* the keyword arguments graphene hands to the mutation: the supplied ones only
LoginKwargs(password, email, username) ==
    LET supplied == {"password"}
                    \cup (IF email # None THEN {"email"} ELSE {})
                    \cup (IF username # None THEN {"username"} ELSE {})
    IN  [k \in supplied |->
            IF k = "password" THEN password
            ELSE IF k = "email" THEN Val(email) ELSE Val(username)]

\* BadArgumentCount with a fault seeded: only a missing identifying field is refused
BadArgumentCountAtLeastTwo(kwargs) == Cardinality(DOMAIN kwargs) < 2

\* len(kwargs.items()) != 2
BadArgumentCount(kwargs) == Cardinality(DOMAIN kwargs) # 2

\* get_user_to_login: UserModel._default_manager.get(**query_kwargs). Its
\* except clause names the module's own ObjectDoesNotExist class, so what the
\* manager raises passes through unchanged.
get_user_to_login(query_field, query_value) ==
    LET found == {id \in DOMAIN users : users[id][query_field] = query_value}
    IN  IF Cardinality(found) = 1
        THEN [raised |-> "", user |-> CHOOSE id \in found : TRUE]
        ELSE IF found = {} THEN [raised |-> "User.DoesNotExist"]
        ELSE [raised |-> "User.MultipleObjectsReturned"]

\* parent_resolve: graphql_jwt's token_auth authenticates by username and
\* password and raises JSONWebTokenError when no user authenticates
parent_resolve(username, password) ==
    LET found == {id \in DOMAIN users :
                    /\ users[id].username = username
                    /\ check_password(users[id], password)}
    IN  IF found = {} THEN [raised |-> "JSONWebTokenError"]
        ELSE [raised |-> "", user |-> CHOOSE id \in found : TRUE]

\* Swallow with a fault seeded: the exception raised inside the try reaches the client
SwallowNothing(raised) == raised

\* the bare except of resolve_mutation: whatever was raised becomes one message
Swallow(raised) == IF raised = "" THEN "" ELSE InvalidCredentials

\* ObtainJSONWebTokenMixin.resolve_mutation
resolve_mutation(kwargs) ==
    IF BadArgumentCount(kwargs)
    THEN [error |-> MustLoginWith, raised |-> "", token |-> None]
    ELSE LET query_field == IF USERNAME_FIELD \in DOMAIN kwargs
                            THEN USERNAME_FIELD
                            ELSE CHOOSE k \in DOMAIN kwargs \ {"password"} : TRUE
             password == kwargs["password"]
             looked == get_user_to_login(query_field, kwargs[query_field])
         IN  IF looked.raised # ""
             THEN [error |-> Swallow(looked.raised), raised |-> looked.raised,
                   token |-> None]
             ELSE LET issued == parent_resolve(users[looked.user][USERNAME_FIELD],
                                               password)
                  IN  IF issued.raised # ""
                      THEN [error |-> Swallow(issued.raised),
                            raised |-> issued.raised, token |-> None]
                      ELSE [error |-> "", raised |-> "",
                            token |-> Some([username |-> users[issued.user].username]),
                            user |-> issued.user]

\* ObtainJSONWebToken (tokenAuth): MutationMixin.mutate
TokenAuth(password, email, username) ==
    LET result == resolve_mutation(LoginKwargs(password, email, username))
    IN  response' = [op |-> "tokenAuth",
                     args |-> [password |-> password, email |-> email,
                               username |-> username],
                     error |-> result.error, raised |-> result.raised,
                     token |-> result.token]
    /\ UNCHANGED <<todos, next_todo_id, now, users, next_user_id>>

\* ------------------------------------------------------------------- spec
Init ==
    /\ todos = <<>>
    /\ next_todo_id = 1
    /\ now = 0
    /\ users = <<>>
    /\ next_user_id = 1
    /\ response = [op |-> "", error |-> ""]

CreateTodoStep ==
    \E c \in Callers, t \in TitleInputs, d \in DescriptionInputs,
       p \in PriorityInputs :
        CreateTodo(c, t, d, p)

UpdateTodoStep ==
    \E id \in TodoIds :
        \/ UpdateTodoNotFound(id)
        \/ \E t \in TitleUpdates, d \in DescriptionUpdates,
              p \in PriorityUpdates, s \in StatusUpdates :
                UpdateTodo(id, t, d, p, s)

DeleteTodoStep == \E id \in TodoIds : DeleteTodo(id)

NextTodos == CreateTodoStep \/ UpdateTodoStep \/ DeleteTodoStep

SpecTodos == Init /\ [][NextTodos]_vars

RegisterStep ==
    \E f \in FirstNames, l \in LastNames, u \in Usernames, e \in Emails,
       p \in Passwords, p2 \in Passwords :
        Register(f, l, u, e, p, p2)

UpdateAccountStep ==
    \/ UpdateAccountAnonymous
    \/ \E c \in DOMAIN users, f \in FirstNameUpdates, l \in LastNameUpdates,
          e \in EmailUpdates, su \in SuperuserUpdates :
            UpdateAccount(c, f, l, e, su)

DeleteAccountStep == \E c \in Callers, p \in Passwords : DeleteAccount(c, p)

PasswordChangeStep ==
    \E c \in Callers, old \in Passwords, new \in Passwords, cfrm \in Passwords :
        PasswordChange(c, old, new, cfrm)

TokenAuthStep ==
    \E p \in Passwords, e \in LoginEmails, u \in LoginUsernames :
        TokenAuth(p, e, u)

NextUsers ==
    \/ TokenAuthStep
    \/ RegisterStep
    \/ UpdateAccountStep
    \/ DeleteAccountStep
    \/ PasswordChangeStep

SpecUsers == Init /\ [][NextUsers]_vars

UpdateAccountLoggedStep ==
    \/ UpdateAccountAnonymous
    \/ \E c \in DOMAIN users, f \in FirstNameUpdates, l \in LastNameUpdates,
          e \in EmailUpdates, su \in SuperuserUpdates :
            UpdateAccountLogged(c, f, l, e, su)

\* sequences of updateAccount calls by the registered users
NextAccount == RegisterStep \/ UpdateAccountLoggedStep

SpecAccount == Init /\ [][NextAccount]_vars

\* ------------------------------------------------------------ ToDo claims
Created == response.op = "createTodo" /\ response.error = ""
Updated == response.op = "updateTodo" /\ response.error = ""
Deleted == response.op = "deleteTodo" /\ response.error = ""

\* C1: every stored ToDo has priority in {LOW, MEDIUM, HIGH} and status in
\* {ACTIVE, DONE, CLOSED}, whatever strings createTodo and updateTodo were given.
C1_ChoicesHold ==
    \A id \in DOMAIN todos :
        /\ todos[id].priority \in PRIORITY_CHOICES
        /\ todos[id].status \in STATUS_CHOICES

\* C3: after a successful createTodo the stored row has the uppercase of the
\* priority argument (LOW when the argument is omitted) and status ACTIVE, and
\* the returned ToDo is that stored row.
C3_CreateStoresUpper ==
    Created =>
        LET a == response.args
            t == response.todo
        IN  /\ t.id \in DOMAIN todos
            /\ todos[t.id] = t
            /\ t.title = a.title
            /\ t.description = a.description
            /\ t.status = ACTIVE
            /\ a.priority = None => t.priority = LOW
            /\ a.priority # None => t.priority = upper(Val(a.priority))

C3_Witness ==
    /\ Created
    /\ response.args.priority = None
    /\ todos[response.todo.id].priority = LOW
    /\ todos[response.todo.id].status = ACTIVE

\* the request supplied a non-empty status and no other optional field
OnlyStatus(a) ==
    /\ a.title = None
    /\ a.description = None
    /\ a.priority = None
    /\ Truthy(a.status)

C5_DeleteRemoves ==
    [][\A id \in TodoIds :
        /\ (Deleted' /\ response'.args.todo_id = id) =>
                /\ response'.todo_id = id
                /\ id \in DOMAIN todos
                /\ DOMAIN todos' = DOMAIN todos \ {id}
                /\ \A other \in DOMAIN todos' : todos'[other] = todos[other]
                /\ resolve_todo_by_id(id)' = [error |-> TodoDoesNotExist]
                /\ id \notin resolve_todos(None)'
        /\ (/\ response'.op = "deleteTodo"
            /\ response'.error # ""
            /\ response'.args.todo_id = id) =>
                /\ response'.error = TodoDoesNotExist
                /\ id \notin DOMAIN todos
                /\ todos' = todos
        /\ (id < next_todo_id /\ id \notin DOMAIN todos) =>
                resolve_todo_by_id(id)' = [error |-> TodoDoesNotExist]
      ]_vars

C5_Witness ==
    /\ Deleted
    /\ response.todo_id = 1
    /\ 1 \notin DOMAIN todos
    /\ 2 \in DOMAIN todos

\* C11: createTodo raises a GraphQLError when the caller is not logged in: a
\* createTodo by an anonymous caller fails and stores no ToDo row.
C11_AnonymousCreateFails ==
    (response.op = "createTodo" /\ response.caller = Anonymous) =>
        response.error # ""

\* ------------------------------------------------------------ User claims
\* the error classes of the resolvers' messages
Conflict == {EmailInUse, UsernameInUse}
ValidationError == {PasswordMismatch, WrongDeletePassword, OldPasswordIncorrect,
                    MustLoginWith}
Unauthenticated == {LoginToUpdate, LoginToChangePassword}
AuthenticationError == {InvalidCredentials}

\* C2: no two distinct stored users have the same username, and no two have
\* the same email, after any sequence of register, updateAccount,
\* passwordChange and deleteAccount.
C2_UniqueUsers ==
    \A i \in DOMAIN users : \A j \in DOMAIN users \ {i} :
        /\ users[i].username # users[j].username
        /\ users[i].email # users[j].email

\* C6: register fails with Conflict when a stored user has the given email or
\* username, and with ValidationError when password # password2; a failing
\* register leaves the User table as it was. Otherwise exactly one user, with
\* the given fields and a password that checks against the given one, is added.
C6_Register ==
    [][response'.op = "register" =>
        LET a == response'.args
            taken == \E id \in DOMAIN users :
                        users[id].email = a.email \/ users[id].username = a.username
            mismatch == a.password # a.password2
        IN  /\ taken => response'.error \in Conflict
            /\ (mismatch /\ ~taken) => response'.error = PasswordMismatch
            /\ response'.error # "" => users' = users
            /\ (~taken /\ ~mismatch) =>
                /\ response'.error = ""
                /\ \E new \in DOMAIN users' \ DOMAIN users :
                    /\ DOMAIN users' = DOMAIN users \cup {new}
                    /\ \A id \in DOMAIN users : users'[id] = users[id]
                    /\ users'[new].first_name = a.first_name
                    /\ users'[new].last_name = a.last_name
                    /\ users'[new].username = a.username
                    /\ users'[new].email = a.email
                    /\ users'[new].is_superuser = FALSE
                    /\ \A p \in Passwords :
                        check_password(users'[new], p) <=> p = a.password
                    /\ response'.user = users'[new]
      ]_vars

C6_Witness ==
    /\ response.op = "register"
    /\ response.error = EmailInUse
    /\ response.args.password = response.args.password2
    /\ \E id \in DOMAIN users : users[id].email = response.args.email
    /\ \A id \in DOMAIN users : users[id].username # response.args.username
    /\ Cardinality(DOMAIN users) = 1

\* the number of arguments a tokenAuth request supplied
Supplied(a) ==
    1 + (IF a.email # None THEN 1 ELSE 0) + (IF a.username # None THEN 1 ELSE 0)

\* C7: tokenAuth with password, email and username all supplied fails with
\* "Must login with password and one of the following fields", whether or not
\* the credentials match a stored user, and issues no token; so does every
\* tokenAuth whose number of supplied arguments is not two.
C7_LoginArgumentCount ==
    (response.op = "tokenAuth" /\ Supplied(response.args) # 2) =>
        /\ response.error = MustLoginWith
        /\ response.error \in ValidationError
        /\ response.token = None

C7_Witness ==
    /\ response.op = "tokenAuth"
    /\ Supplied(response.args) = 3
    /\ response.error = MustLoginWith
    /\ \E id \in DOMAIN users :
        /\ users[id].username = Val(response.args.username)
        /\ users[id].email = Val(response.args.email)
        /\ check_password(users[id], response.args.password)

\* the stored users that the identifying field of a two-argument login names
Named(a) ==
    {id \in DOMAIN users :
        IF a.username # None THEN users[id].username = Val(a.username)
        ELSE users[id].email = Val(a.email)}

\* C8: tokenAuth with a password and one identifying field that matches no
\* stored user fails with "Please enter valid credentials." and not with the
\* lookup's own error; a wrong password for a stored user fails with the same
\* message, and neither issues a token.
C8_LoginGenericError ==
    (response.op = "tokenAuth" /\ Supplied(response.args) = 2) =>
        /\ Named(response.args) = {} =>
            /\ response.raised = "User.DoesNotExist"
            /\ response.error = InvalidCredentials
            /\ response.token = None
        /\ (\E id \in Named(response.args) :
                ~check_password(users[id], response.args.password)) =>
            /\ response.error = InvalidCredentials
            /\ response.token = None
        /\ response.error \in {"", InvalidCredentials}

C8_Witness ==
    /\ response.op = "tokenAuth"
    /\ Supplied(response.args) = 2
    /\ response.args.email # None
    /\ Named(response.args) = {}
    /\ users # <<>>
    /\ response.error = InvalidCredentials

\* C9: deleteAccount(password) by an authenticated user fails with "Please
\* specify correct password to delete account" when the password does not
\* check against the stored one, and the User table is then unchanged; when it
\* checks, exactly the caller's row is removed and the password is returned.
C9_DeleteAccount ==
    [][(response'.op = "deleteAccount" /\ response'.caller # Anonymous) =>
        LET c == response'.caller
            p == response'.args.password
        IN  /\ c \in DOMAIN users
            /\ ~check_password(users[c], p) =>
                /\ response'.error = WrongDeletePassword
                /\ users' = users
            /\ check_password(users[c], p) =>
                /\ response'.error = ""
                /\ response'.password = p
                /\ DOMAIN users' = DOMAIN users \ {c}
                /\ \A id \in DOMAIN users' : users'[id] = users[id]
      ]_vars

C9_Witness ==
    /\ response.op = "deleteAccount"
    /\ response.error = WrongDeletePassword
    /\ response.caller \in DOMAIN users
    /\ ~check_password(users[response.caller], response.args.password)

\* C10: passwordChange fails with "You must be logged in to change your
\* password" for an anonymous caller, and with "Old password is incorrect" or
\* "Password mismatch!" when old_password does not check or new_password #
\* cfrm_password; a failing call leaves every stored password as it was.
\* Otherwise only the caller's password changes, and afterwards new_password
\* checks and no other password does.
C10_PasswordChange ==
    [][response'.op = "passwordChange" =>
        LET c == response'.caller
            a == response'.args
        IN  /\ c = Anonymous => response'.error = LoginToChangePassword
            /\ (c # Anonymous /\ ~check_password(users[c], a.old_password)) =>
                    response'.error = OldPasswordIncorrect
            /\ (c # Anonymous /\ check_password(users[c], a.old_password)
                    /\ a.new_password # a.cfrm_password) =>
                    response'.error = PasswordMismatch
            /\ response'.error # "" => users' = users
            /\ (c # Anonymous /\ check_password(users[c], a.old_password)
                    /\ a.new_password = a.cfrm_password) =>
                /\ response'.error = ""
                /\ DOMAIN users' = DOMAIN users
                /\ \A id \in DOMAIN users \ {c} : users'[id] = users[id]
                /\ users'[c] = [users[c] EXCEPT !.password = users'[c].password]
                /\ \A p \in Passwords :
                    check_password(users'[c], p) <=> p = a.new_password
      ]_vars

C10_Witness ==
    /\ response.op = "passwordChange"
    /\ response.error = ""
    /\ response.args.old_password # response.args.new_password
    /\ check_password(users[response.caller], response.args.new_password)
    /\ ~check_password(users[response.caller], response.args.old_password)
    /\ Cardinality(DOMAIN users) = 2

\* the value a stored text field has after an update given argument arg
AfterText(stored, arg) == IF arg \in {None, Some("")} THEN stored ELSE Val(arg)

\* C12: across updateAccount calls a user's is_superuser never goes from true
\* to false, and first_name, last_name and email are never changed to the
\* empty string: an absent, empty or false argument leaves the stored field as
\* it was, and any other argument overwrites it.
C12_FalsyKeepsField ==
    [][response'.op = "updateAccount" =>
        /\ DOMAIN users' = DOMAIN users
        /\ \A id \in DOMAIN users :
            /\ users[id].is_superuser => users'[id].is_superuser
            /\ users'[id].first_name = "" => users[id].first_name = ""
            /\ users'[id].last_name = "" => users[id].last_name = ""
            /\ users'[id].email = "" => users[id].email = ""
        /\ response'.error = "" =>
            LET a == response'.args
                old == users[response'.caller]
                new == users'[response'.caller]
            IN  /\ new.first_name = AfterText(old.first_name, a.first_name)
                /\ new.last_name = AfterText(old.last_name, a.last_name)
                /\ new.email = AfterText(old.email, a.email)
                /\ new.is_superuser =
                    (IF a.is_superuser = Some(TRUE) THEN TRUE
                     ELSE old.is_superuser)
                /\ new.username = old.username
                /\ new.password = old.password
      ]_vars

\* a superuser sent first_name = "", email = "" and is_superuser = false, and
\* still has a name, an email and is_superuser
C12_Witness ==
    /\ response.op = "updateAccount"
    /\ response.error = ""
    /\ response.args.first_name = Some("")
    /\ response.args.last_name = Some("")
    /\ response.args.email = Some("")
    /\ response.args.is_superuser = Some(FALSE)
    /\ users[response.caller].is_superuser
    /\ users[response.caller].first_name = "Zed"
    /\ users[response.caller].last_name = "Lee"
    /\ users[response.caller].email = "a@x"

\* C13: updateAccount makes no privilege check on is_superuser: for every
\* authenticated caller, superuser or not, updateAccount(is_superuser=true)
\* can be made, succeeds and leaves the caller's stored is_superuser true; the
\* only updateAccount that is refused is an anonymous caller's.
C13_NoPrivilegeCheck ==
    [][/\ \A c \in DOMAIN users :
            ENABLED UpdateAccountLogged(c, None, None, None, Some(TRUE))
       /\ response'.op = "updateAccount" =>
            /\ response'.error # "" <=> response'.caller = Anonymous
            /\ response'.error # "" =>
                /\ response'.error = LoginToUpdate
                /\ users' = users
            /\ (response'.error = "" /\ response'.args.is_superuser = Some(TRUE)) =>
                /\ response'.caller \in DOMAIN users
                /\ users'[response'.caller].is_superuser
                /\ response'.user.is_superuser
      ]_vars

\* one of two registered users asked for is_superuser and nothing else, and
\* has it; the other has not
C13_Witness ==
    /\ response.op = "updateAccount"
    /\ response.error = ""
    /\ response.args = [first_name |-> None, last_name |-> None,
                        email |-> None, is_superuser |-> Some(TRUE)]
    /\ users[response.caller].is_superuser
    /\ \E other \in DOMAIN users \ {response.caller} : ~users[other].is_superuser

Next == NextTodos \/ NextUsers
Spec == Init /\ [][Next]_vars
====
